---- MODULE Spec2Model ----
(***************************************************************************)
(* Model of IzipaySettings (izipay_settings.py): the two pre-charge        *)
(* validators and the create_request -> create_charge_on_stripe ->         *)
(* finalize_request flow of one gateway-settings instance.                 *)
(*                                                                         *)
(* Python values.  An optional value (None or a value) is a sequence of    *)
(* length at most one: None is << >>, the string "x" is <<"x">>.  Strings  *)
(* are TLA+ strings, built and inspected character by character with       *)
(* \o, Len and SubSeq, so URL building and percent-encoding are computed   *)
(* as urllib computes them (over printable ASCII).                         *)
(***************************************************************************)
EXTENDS Integers, Sequences, FiniteSets, TLC

VARIABLES
    redirect_url,        \* self.redirect_url: the gateway-level override (optional string)
    status_changed_to,   \* self.flags.status_changed_to (optional string)
    data,                \* self.data (optional record: None before the first create_request)
    integration_request, \* self.integration_request (optional record [status])
    last                 \* observation of the last operation: its inputs, what it called, what it returned

vars == <<redirect_url, status_changed_to, data, integration_request, last>>

----------------------------------------------------------------------------
(* Python helpers *)

None == << >>

Some(v) == <<v>>

\* bool(v) for an optional string: None and "" are falsy.
Truthy(v) == v /= None /\ v[1] /= ""

\* `x or None`
OrNone(v) == IF Truthy(v) THEN v ELSE None

\* str(v) for an optional string.
str(v) == IF v = None THEN "None" ELSE v[1]

\* The characters of a string.
CharsOf(s) == {SubSeq(s, i, i) : i \in 1..Len(s)}

\* `c in s` for a one-character string c.
Contains(s, c) == \E i \in 1..Len(s) : SubSeq(s, i, i) = c

\* The printable ASCII characters 32..95 and 97..126 in code order (a
\* string of this language cannot hold character 96, the backquote).
Printable32 ==
    " !\"#$%&'()*+,-./0123456789:;<=>?@ABCDEFGHIJKLMNOPQRSTUVWXYZ[\\]^_"

Printable97 == "abcdefghijklmnopqrstuvwxyz{|}~"

HexDigits == "0123456789ABCDEF"

\* ord(c) of a printable ASCII character.
ord(c) ==
    IF Contains(Printable32, c)
    THEN 31 + CHOOSE i \in 1..Len(Printable32) : SubSeq(Printable32, i, i) = c
    ELSE 96 + CHOOSE i \in 1..Len(Printable97) : SubSeq(Printable97, i, i) = c

\* The characters quote_plus never escapes: letters, digits and "_.-~".
AlwaysSafe ==
    CharsOf("ABCDEFGHIJKLMNOPQRSTUVWXYZabcdefghijklmnopqrstuvwxyz0123456789_.-~")

\* urllib.parse.quote_plus of one character: a safe character is kept, a
\* space becomes "+", any other byte becomes %XX (upper-case hex).
quote_char(c) ==
    IF c \in AlwaysSafe THEN c
    ELSE IF c = " " THEN "+"
    ELSE "%" \o SubSeq(HexDigits, (ord(c) \div 16) + 1, (ord(c) \div 16) + 1)
             \o SubSeq(HexDigits, (ord(c) % 16) + 1, (ord(c) % 16) + 1)

\* quote_char tabulated over the printable characters.
QuoteTable ==
    [c \in CharsOf(Printable32) \cup CharsOf(Printable97) |-> quote_char(c)]

RECURSIVE quote_plus(_)
quote_plus(s) ==
    IF s = "" THEN ""
    ELSE QuoteTable[SubSeq(s, 1, 1)] \o quote_plus(SubSeq(s, 2, Len(s)))

\* urllib.parse.urlencode({key: v}): key=quote_plus(str(v)); None is
\* rendered by str() as the text None.
urlencode(key, v) == key \o "=" \o quote_plus(str(v))

\* frappe.utils.flt: float(s), and 0.0 when float(s) raises (None, a
\* non-numeric value).  Amounts are optional whole numbers.
flt(amount) == IF amount = None THEN 0 ELSE amount[1]

----------------------------------------------------------------------------
(* Class attributes *)

supported_currencies == {"PEN", "USD"}

currency_wise_minimum_charge_amount == [c \in {"PEN", "USD"} |-> 1]

----------------------------------------------------------------------------
(* Inputs *)

MaxAmount == 2

Currencies == {"PEN", "USD", "EUR", "pen"}

Amounts == {None} \cup {Some(n) : n \in 0..MaxAmount}

RedirectTos == {None, Some(""), Some("https://caller.example/x")}

RedirectMessages == {None, Some("Thanks")}

Doctypes == {None, Some("Sales Invoice")}

Docnames == {None, Some("SINV-0001")}

RedirectUrls == {None, Some("https://shop.example/thanks")}

\* The payment data a caller passes to create_request.  stripe_token_id,
\* description and payer_email are only forwarded to the charge API.
\* The amount is a number; the amount and currency vary with the redirect
\* fields fixed, and the redirect fields vary with the amount and currency
\* fixed.
PaymentData ==
    {d \in [amount : Amounts \ {None}, currency : Currencies,
            redirect_to : RedirectTos,
            redirect_message : RedirectMessages,
            reference_doctype : Doctypes, reference_docname : Docnames] :
        \/ d.amount = Some(1) /\ d.currency = "PEN"
        \/ /\ d.redirect_to = None
           /\ d.redirect_message = None
           /\ d.reference_doctype = Some("Sales Invoice")
           /\ d.reference_docname = Some("SINV-0001")}

\* What stripe.Charge.create can do: return a captured charge, return a
\* charge that is not captured, or raise.
ChargeOutcomes == {"captured", "not_captured", "raised"}

\* What the on_payment_authorized hook of the reference document can do.
HookOutcomes ==
    {[raises |-> TRUE, returns |-> None],
     [raises |-> FALSE, returns |-> None],
     [raises |-> FALSE, returns |-> Some("/orders/1")]}

\* The status create_request_log gives a new Integration Request.
Queued == "Queued"

\* frappe.redirect_to_message(_("Server Error"), ...): an opaque location.
ServerErrorRedirect == "/message?id=Server Error"

ServerErrorStatus == 401

----------------------------------------------------------------------------
(* Validators *)

\* Mutant: the membership test ignores case.
validate_transaction_currency_ignoring_case(currency) ==
    currency \notin supported_currencies \cup {"pen", "usd"}

\* validate_transaction_currency: TRUE iff frappe.throw is reached.
validate_transaction_currency(currency) ==
    currency \notin supported_currencies

\* Mutant: an amount equal to the minimum is rejected too.
validate_minimum_transaction_amount_inclusive(currency, amount) ==
    /\ currency \in DOMAIN currency_wise_minimum_charge_amount
    /\ flt(amount) <= currency_wise_minimum_charge_amount[currency]

\* validate_minimum_transaction_amount: TRUE iff frappe.throw is reached.
validate_minimum_transaction_amount(currency, amount) ==
    /\ currency \in DOMAIN currency_wise_minimum_charge_amount
    /\ flt(amount) < currency_wise_minimum_charge_amount[currency]

----------------------------------------------------------------------------
(* finalize_request *)

\* Mutant: the hook's result is assigned to redirect_to whether truthy or not.
after_hook_unconditional(redirect_to, hook) ==
    IF hook.raises THEN None ELSE hook.returns

\* Lines 166-175: the hook's return value, when truthy, replaces the
\* caller's redirect_to; an exception of the hook is logged and ignored.
after_hook(redirect_to, hook) ==
    LET custom_redirect_to == IF hook.raises THEN None ELSE hook.returns
    IN IF Truthy(custom_redirect_to) THEN custom_redirect_to ELSE redirect_to

\* Lines 177-179: str.format, nothing is encoded.
success_url(doctype, docname) ==
    "payment-success?doctype=" \o str(doctype) \o "&docname=" \o str(docname)

\* Mutant: the override leaves redirect_to as it is.
redirect_to_kept_on_override(override, redirect_to) == redirect_to

\* Lines 181-183: a configured override clears redirect_to.
redirect_to_after_override(override, redirect_to) ==
    IF Truthy(override) THEN None ELSE redirect_to

\* Lines 160-185: the local redirect_url (None while unbound), the local
\* redirect_to, and whether the hook was invoked.
resolve_redirect(d, flag, override, hook) ==
    LET redirect_to == OrNone(d.redirect_to)
        has_ref == Truthy(d.reference_doctype) /\ Truthy(d.reference_docname)
    IN IF flag = Some("Completed")
       THEN [hook_called |-> has_ref,
             redirect_url |->
                 IF Truthy(override) THEN override
                 ELSE IF has_ref
                      THEN Some(success_url(d.reference_doctype, d.reference_docname))
                 ELSE None,
             redirect_to |->
                 redirect_to_after_override(
                     override,
                     IF has_ref THEN after_hook(redirect_to, hook) ELSE redirect_to)]
       ELSE [hook_called |-> FALSE,
             redirect_url |-> Some("payment-failed"),
             redirect_to |-> redirect_to]

\* Mutant: redirect_to is always joined with "?".
append_redirect_to_with_question_mark(url, redirect_to) ==
    url \o "?" \o urlencode("redirect_to", redirect_to)

\* Lines 188-191.
append_redirect_to(url, redirect_to) ==
    IF Truthy(redirect_to) /\ Contains(url, "?")
    THEN url \o "&" \o urlencode("redirect_to", redirect_to)
    ELSE url \o "?" \o urlencode("redirect_to", redirect_to)

\* Lines 193-194.
append_redirect_message(url, redirect_message) ==
    IF Truthy(redirect_message)
    THEN url \o "&" \o urlencode("redirect_message", redirect_message)
    ELSE url

\* finalize_request: raised is TRUE when the unbound local redirect_url is
\* read at line 188 or 191 (UnboundLocalError); otherwise ret is the
\* returned descriptor.  base and redirect_to are the locals redirect_url
\* and redirect_to as they stand at line 187.
finalize_request(d, status, flag, override, hook) ==
    LET r == resolve_redirect(d, flag, override, hook)
    IN [raised |-> r.redirect_url = None,
        hook_called |-> r.hook_called,
        base |-> r.redirect_url,
        redirect_to |-> r.redirect_to,
        ret |-> IF r.redirect_url = None THEN None
                ELSE Some([kind |-> "finalized",
                           redirect_to |->
                               append_redirect_message(
                                   append_redirect_to(r.redirect_url[1], r.redirect_to),
                                   OrNone(d.redirect_message)),
                           status |-> status])]

----------------------------------------------------------------------------
(* create_request *)

\* Lines 113-121.
server_error == [kind |-> "server_error", redirect_to |-> ServerErrorRedirect,
                 status |-> ServerErrorStatus]

\* Lines 133-139: the request sent to the charge API.
charge_request(d) ==
    [amount |-> flt(d.amount) * 100, currency |-> d.currency]

\* Lines 132, 148-149: the try around the charge call catches Exception,
\* which is every exception the charge call raises.
caught_by_charge_handler(outcome) == outcome = "raised"

\* Lines 141-146: the audit status after the charge call (db_set).
status_after_charge(outcome, status) ==
    IF outcome = "captured" THEN "Completed" ELSE status

\* Lines 141-146: self.flags.status_changed_to after the charge call.
flag_after_charge(outcome, flag) ==
    IF outcome = "captured" THEN Some("Completed") ELSE flag

\* create_charge_on_stripe: escaped is TRUE when an exception leaves it
\* (one of the charge call that the handler did not catch, or one of
\* finalize_request, which is called outside the try).
create_charge_on_stripe(d, outcome, status, flag, override, hook) ==
    LET uncaught == outcome = "raised" /\ ~caught_by_charge_handler(outcome)
        status2 == status_after_charge(outcome, status)
        flag2 == flag_after_charge(outcome, flag)
        fin == finalize_request(d, status2, flag2, override, hook)
    IN [status |-> status2, flag |-> flag2,
        finalize_ran |-> ~uncaught,
        finalize_raised |-> ~uncaught /\ fin.raised,
        hook |-> IF ~uncaught /\ fin.hook_called THEN Some(hook) ELSE None,
        base |-> IF uncaught THEN None ELSE fin.base,
        redirect_to |-> IF uncaught THEN None ELSE fin.redirect_to,
        escaped |-> uncaught \/ fin.raised,
        ret |-> IF uncaught THEN None ELSE fin.ret]

\* create_request(data) when create_request_log raises: line 108 throws,
\* lines 111-121 return the Server Error descriptor; nothing is charged.
create_request_log_fails(d) ==
    /\ data' = Some(d)
    /\ last' = [op |-> "create_request", data |-> d, log_ok |-> FALSE,
                charge |-> "none", charged |-> None, hook |-> None,
                pre_status |-> None, flag_before |-> status_changed_to,
                finalize_ran |-> FALSE, finalize_raised |-> FALSE,
                base |-> None, redirect_to |-> None,
                ret |-> server_error]
    /\ UNCHANGED <<redirect_url, status_changed_to, integration_request>>

\* create_request(data) when the audit record is created (status Queued):
\* the whole of create_request, create_charge_on_stripe and
\* finalize_request.
create_request(d, outcome, hook) ==
    \E r \in {create_charge_on_stripe(d, outcome, Queued, status_changed_to,
                                     redirect_url, hook)} :
       /\ data' = Some(d)
       /\ integration_request' = Some([status |-> r.status])
       /\ status_changed_to' = r.flag
       /\ last' = [op |-> "create_request", data |-> d, log_ok |-> TRUE,
                   charge |-> outcome, charged |-> Some(charge_request(d)),
                   hook |-> r.hook,
                   pre_status |-> Some(Queued),
                   flag_before |-> status_changed_to,
                   finalize_ran |-> r.finalize_ran,
                   finalize_raised |-> r.finalize_raised,
                   base |-> r.base, redirect_to |-> r.redirect_to,
                   ret |-> IF r.escaped THEN server_error ELSE r.ret[1]]
       /\ UNCHANGED redirect_url

\* The hook is consulted only when finalize_request invokes it.
HooksFor(d, outcome) ==
    IF flag_after_charge(outcome, status_changed_to) = Some("Completed")
       /\ Truthy(d.reference_doctype) /\ Truthy(d.reference_docname)
    THEN HookOutcomes
    ELSE {[raises |-> FALSE, returns |-> None]}

\* validate_transaction_currency(currency), called by the payment request.
ValidateTransactionCurrency(currency) ==
    /\ last' = [op |-> "validate_transaction_currency", currency |-> currency,
                raised |-> validate_transaction_currency(currency)]
    /\ UNCHANGED <<redirect_url, status_changed_to, data, integration_request>>

\* validate_minimum_transaction_amount(currency, amount).
ValidateMinimumTransactionAmount(currency, amount) ==
    /\ last' = [op |-> "validate_minimum_transaction_amount",
                currency |-> currency, amount |-> amount,
                raised |-> validate_minimum_transaction_amount(currency, amount)]
    /\ UNCHANGED <<redirect_url, status_changed_to, data, integration_request>>

\* __init__: a new instance of the same settings document.
NewInstance ==
    /\ status_changed_to' = None
    /\ data' = None
    /\ integration_request' = None
    /\ last' = [op |-> "init"]
    /\ UNCHANGED redirect_url

Init ==
    /\ redirect_url \in RedirectUrls
    /\ status_changed_to = None
    /\ data = None
    /\ integration_request = None
    /\ last = [op |-> "init"]

Next ==
    \/ \E c \in Currencies : ValidateTransactionCurrency(c)
    \/ \E c \in Currencies, a \in Amounts : ValidateMinimumTransactionAmount(c, a)
    \/ \E d \in PaymentData : create_request_log_fails(d)
    \/ \E d \in PaymentData, outcome \in ChargeOutcomes :
          \E hook \in HooksFor(d, outcome) : create_request(d, outcome, hook)
    \/ NewInstance

Spec == Init /\ [][Next]_vars

----------------------------------------------------------------------------
(* Properties *)

\* The last operation was a create_request call.
Attempt == last.op = "create_request"

\* The last create_request call reached the charge call.
Charged == Attempt /\ last.log_ok

\* The status of the audit record.
AuditStatus == integration_request[1].status

\* urlencode's rendering of the values the inputs are drawn from, as
\* CPython's urllib.parse.quote_plus gives them.
Encoded(v) ==
    CASE v = "https://caller.example/x" -> "https%3A%2F%2Fcaller.example%2Fx"
      [] v = "/orders/1" -> "%2Forders%2F1"
      [] v = "Thanks" -> "Thanks"

\* The redirect_message segment of the URL of the last call.
MessageSuffix ==
    IF last.data.redirect_message \in {None, Some("")} THEN ""
    ELSE "&redirect_message=" \o Encoded(last.data.redirect_message[1])

\* The success page of the last call's reference document.
SuccessPage ==
    "payment-success?doctype=" \o last.data.reference_doctype[1]
        \o "&docname=" \o last.data.reference_docname[1]

\* The caller-supplied redirect-to of the last call (an empty one is none).
CallerRedirectTo ==
    IF last.data.redirect_to = Some("") THEN None ELSE last.data.redirect_to

ChargeRaised == Charged /\ last.charge = "raised"

\* C1 as stated: whenever the charge call raises, create_request returns the
\* Server Error / 401 descriptor at once, finalize_request is not run, and
\* the audit status is left at its pre-charge value.
C1_ChargeRaiseReturnsServerError ==
    ChargeRaised =>
        /\ last.ret.kind = "server_error"
        /\ ~last.finalize_ran
        /\ AuditStatus = last.pre_status[1]

\* C2 as stated: create_request makes the charge call only for a currency
\* that passes validate_transaction_currency and an amount that passes
\* validate_minimum_transaction_amount.
C2_ChargeOnlyAfterValidation ==
    Charged =>
        /\ last.data.currency \in {"PEN", "USD"}
        /\ last.data.amount /= None
        /\ last.data.amount[1] >= 1

\* C3 as stated: when the charge is not captured, the audit status stays at
\* its pre-charge value, the flag is not set by the attempt, and the
\* descriptor has base path payment-failed and the unchanged audit status.
C3_NotCapturedGetsFailurePage ==
    (Charged /\ last.charge = "not_captured") =>
        /\ AuditStatus = last.pre_status[1]
        /\ status_changed_to = last.flag_before
        /\ last.ret.kind = "finalized"
        /\ last.base = Some("payment-failed")
        /\ last.ret.status = last.pre_status[1]

\* finalize_request ran with the flag Completed and an override configured.
OverrideCase ==
    /\ Charged
    /\ last.finalize_ran
    /\ status_changed_to = Some("Completed")
    /\ redirect_url \notin {None, Some("")}

\* C4 as stated: with the flag Completed and an override configured, the
\* final URL is the override followed by "?redirect_to=" with an empty
\* value, whatever the caller and the hook supplied.
C4_Original ==
    OverrideCase =>
        /\ last.ret.kind = "finalized"
        /\ last.ret.redirect_to = redirect_url[1] \o "?redirect_to=" \o MessageSuffix

\* C4 amended: with the flag Completed and an override configured, the
\* final URL is the override followed by "?redirect_to=None" (the cleared
\* value is rendered as the text None), then by the redirect_message
\* segment when a message was supplied; neither the caller's nor the hook's
\* redirect-to value appears in it.
C4_OverrideClearsRedirectTo ==
    OverrideCase =>
        /\ last.ret.kind = "finalized"
        /\ last.redirect_to = None
        /\ last.ret.redirect_to =
               redirect_url[1] \o "?redirect_to=None" \o MessageSuffix

C4_Witness ==
    /\ OverrideCase
    /\ last.data.redirect_to = Some("https://caller.example/x")
    /\ last.hook = Some([raises |-> FALSE, returns |-> Some("/orders/1")])
    /\ last.ret.redirect_to = "https://shop.example/thanks?redirect_to=None"

\* finalize_request ran with the flag Completed and both references
\* present, and the hook raised.
HookRaisedCase ==
    /\ Charged
    /\ last.finalize_ran
    /\ status_changed_to = Some("Completed")
    /\ last.data.reference_doctype \notin {None, Some("")}
    /\ last.data.reference_docname \notin {None, Some("")}
    /\ last.hook /= None
    /\ last.hook[1].raises

\* C5 as stated: when the hook raises, finalize_request still returns a
\* descriptor, the audit status stays Completed and is the descriptor's
\* status, the base path is the success page (or the override), and the
\* redirect-to used is the caller-supplied one.
C5_Original ==
    HookRaisedCase =>
        /\ last.ret.kind = "finalized"
        /\ AuditStatus = "Completed"
        /\ last.ret.status = "Completed"
        /\ last.base = IF redirect_url \in {None, Some("")}
                       THEN Some(SuccessPage) ELSE redirect_url
        /\ last.redirect_to = CallerRedirectTo

\* C5 amended: when the hook raises, finalize_request still returns a
\* descriptor; the audit status is not altered by the failure (Completed
\* when this attempt's charge was captured) and is the descriptor's status;
\* the base path is the success page, or the override when configured; the
\* redirect-to used is the caller-supplied one when no override is
\* configured and none when an override is configured.
C5_HookFailureIsSwallowed ==
    HookRaisedCase =>
        /\ last.ret.kind = "finalized"
        /\ AuditStatus = IF last.charge = "captured" THEN "Completed"
                         ELSE last.pre_status[1]
        /\ last.ret.status = AuditStatus
        /\ last.base = IF redirect_url \in {None, Some("")}
                       THEN Some(SuccessPage) ELSE redirect_url
        /\ last.redirect_to = IF redirect_url \in {None, Some("")}
                              THEN CallerRedirectTo ELSE None

C5_Witness ==
    /\ HookRaisedCase
    /\ last.charge = "captured"
    /\ redirect_url = None
    /\ last.data.redirect_to = Some("https://caller.example/x")
    /\ last.ret.status = "Completed"
    /\ last.ret.redirect_to =
           "payment-success?doctype=Sales Invoice&docname=SINV-0001"
               \o "&redirect_to=https%3A%2F%2Fcaller.example%2Fx"

\* finalize_request returned a descriptor.
Finalized == Attempt /\ last.ret.kind = "finalized"

\* "&" when the base path holds a "?", "?" otherwise.
Joiner == IF \E i \in 1..Len(last.base[1]) : SubSeq(last.base[1], i, i) = "?"
          THEN "&" ELSE "?"

\* C6 as stated: a present redirect-to is appended as redirect_to=<value>
\* with "&" or "?"; an absent one gives the base path followed by
\* "?redirect_to=" with an empty value.
C6_Original ==
    Finalized =>
        last.ret.redirect_to =
            last.base[1]
                \o (IF last.redirect_to = None THEN "?redirect_to="
                    ELSE Joiner \o "redirect_to=" \o Encoded(last.redirect_to[1]))
                \o MessageSuffix

\* C6 amended: a present redirect-to is appended as redirect_to=<value>,
\* the value percent-encoded, joined with "&" if the base path already
\* contains "?" and with "?" otherwise; an absent one gives the base path
\* followed by "?redirect_to=None", so Completed with doctype Sales Invoice
\* and docname SINV-0001 gives
\* "payment-success?doctype=Sales Invoice&docname=SINV-0001?redirect_to=None"
\* and a non-Completed status gives "payment-failed?redirect_to=None".
C6_RedirectToSegment ==
    Finalized =>
        /\ last.ret.redirect_to =
               last.base[1]
                   \o (IF last.redirect_to = None THEN "?redirect_to=None"
                       ELSE Joiner \o "redirect_to=" \o Encoded(last.redirect_to[1]))
                   \o MessageSuffix
        /\ (/\ last.base = Some("payment-success?doctype=Sales Invoice&docname=SINV-0001")
            /\ last.redirect_to = None
            /\ MessageSuffix = "")
           => last.ret.redirect_to =
                  "payment-success?doctype=Sales Invoice&docname=SINV-0001?redirect_to=None"
        /\ (/\ status_changed_to /= Some("Completed")
            /\ last.redirect_to = None
            /\ MessageSuffix = "")
           => last.ret.redirect_to = "payment-failed?redirect_to=None"

C6_Witness ==
    /\ Finalized
    /\ last.redirect_to = Some("/orders/1")
    /\ last.ret.redirect_to =
           "payment-success?doctype=Sales Invoice&docname=SINV-0001"
               \o "&redirect_to=%2Forders%2F1&redirect_message=Thanks"

\* C7: validate_transaction_currency raises for every currency code that is
\* not exactly PEN or USD and returns without error for PEN and for USD.
C7_CurrencyMembership ==
    last.op = "validate_transaction_currency" =>
        (last.raised <=> ~(last.currency = "PEN" \/ last.currency = "USD"))

C7_Witness ==
    /\ last.op = "validate_transaction_currency"
    /\ last.currency = "pen"
    /\ last.raised

\* The amount of the last validate_minimum_transaction_amount call as a
\* number (a missing amount counts as 0).
ValidatedAmount == IF last.amount = None THEN 0 ELSE last.amount[1]

\* C8: validate_minimum_transaction_amount raises exactly when the currency
\* has an entry in the minimum table (PEN: 1, USD: 1) and the amount is
\* strictly less than it; it succeeds for an amount equal to or above the
\* entry and for every amount of a currency without entry.
C8_MinimumAmount ==
    last.op = "validate_minimum_transaction_amount" =>
        /\ last.raised <=> (last.currency \in {"PEN", "USD"} /\ ValidatedAmount < 1)
        /\ (last.currency \in {"PEN", "USD"} /\ ValidatedAmount >= 1) => ~last.raised
        /\ last.currency \notin {"PEN", "USD"} => ~last.raised

C8_Witness ==
    /\ last.op = "validate_minimum_transaction_amount"
    /\ last.currency = "USD"
    /\ last.amount = Some(1)
    /\ ~last.raised

\* C9 as stated: an attempt whose charge was captured (audit record set to
\* Completed) never gets the Server Error / 401 descriptor: the descriptor
\* has status Completed and a success-page or override redirect.
C9_CapturedNeverServerError ==
    (Charged /\ last.charge = "captured") =>
        /\ AuditStatus = "Completed"
        /\ last.ret.kind = "finalized"
        /\ last.ret.status = "Completed"

\* C10 as stated: an attempt whose charge is not captured or raises gets the
\* payment-failed base redirect and does not invoke the hook, whatever the
\* earlier attempts did; the flag finalize_request sees is Completed only
\* if the current attempt's charge was captured.
C10_AttemptsIndependent ==
    (Charged /\ last.charge \in {"not_captured", "raised"}) =>
        /\ last.base = Some("payment-failed")
        /\ last.hook = None
        /\ status_changed_to /= Some("Completed")

====
